---- MODULE Spec2Model ----
(***************************************************************************)
(* A model of the spamsum fuzzy hash of src/src/lib.rs: the input filter,  *)
(* the blocksize guess, one hashing pass (rolling trigger + two FNV        *)
(* accumulators) and the adaptive retry loop of get_configured_spamsum.    *)
(*                                                                         *)
(* A u32 is kept as a pair <<hi, lo>> of 16-bit halves, so that every      *)
(* 32-bit operation of the code (wrapping or checked) is computed exactly. *)
(***************************************************************************)
EXTENDS Integers, Sequences, FiniteSets

VARIABLES
    build,          \* "debug" (overflow checks on) or "release" (wrapping)
    input,          \* the caller's byte vector
    options,        \* SpamsumOptions
    pc,             \* position in the code
    valid_input,    \* the filtered copy of the input
    result,         \* the Spamsum under construction / returned
    rolling_hash,   \* the local rolling_hash of a pass
    hash_state,     \* the HashState of a pass
    passes,         \* history: calls of get_spamsum_with_set_blocksize so far
    filter_calls,   \* history: calls of filter_input on the buffer so far
    input_length,   \* the argument of guess_initial_blocksize
    blocksize       \* the local blocksize of guess_initial_blocksize

vars == <<build, input, options, pc, valid_input, result, rolling_hash,
          hash_state, passes, filter_calls, input_length, blocksize>>

(***************************************************************************)
(* Program constants.                                                      *)
(***************************************************************************)
LEFT_HASH_LENGTH == 64
RIGHT_HASH_LENGTH == LEFT_HASH_LENGTH \div 2
MIN_BLOCKSIZE == 3
ROLLING_WINDOW == 7

W16 == 2 ^ 16

U32(hi, lo) == <<hi, lo>>
Hi(x) == x[1]
Lo(x) == x[2]
\* a natural below 2^31 as a u32
FromNat(n) == <<n \div W16, n % W16>>
U32Zero == <<0, 0>>
U32One == <<0, 1>>
U32Max == <<W16 - 1, W16 - 1>>

HASH_PRIME == U32(256, 403)       \* 0x01000193
HASH_INIT == U32(10242, 6503)     \* 0x28021967

BASE64_CHARSET ==
    <<"A","B","C","D","E","F","G","H","I","J","K","L","M","N","O","P",
      "Q","R","S","T","U","V","W","X","Y","Z","a","b","c","d","e","f",
      "g","h","i","j","k","l","m","n","o","p","q","r","s","t","u","v",
      "w","x","y","z","0","1","2","3","4","5","6","7","8","9","+","/">>

(***************************************************************************)
(* 32-bit unsigned arithmetic.                                             *)
(***************************************************************************)
U32Lt(a, b) == Hi(a) < Hi(b) \/ (Hi(a) = Hi(b) /\ Lo(a) < Lo(b))

wrapping_add(a, b) ==
    LET lo == Lo(a) + Lo(b)
    IN  <<(Hi(a) + Hi(b) + lo \div W16) % W16, lo % W16>>

wrapping_sub(a, b) ==
    LET lo == Lo(a) - Lo(b)
        borrow == IF lo < 0 THEN 1 ELSE 0
    IN  <<(Hi(a) - Hi(b) - borrow + 2 * W16) % W16, (lo + W16) % W16>>

\* a << s for 0 <= s <= 8, bits shifted out are lost
wrapping_shl(a, s) ==
    LET lo == Lo(a) * (2 ^ s)
    IN  <<(Hi(a) * (2 ^ s) + lo \div W16) % W16, lo % W16>>

\* the exact product a * k for a small factor k (k <= 256), as <<high, lo>>
\* where high may exceed 16 bits: the product overflows a u32 iff it does
FullMulSmall(a, k) ==
    LET lo == Lo(a) * k
    IN  <<Hi(a) * k + lo \div W16, lo % W16>>

Overflows(full) == Hi(full) >= W16
Wrapped(full) == <<Hi(full) % W16, Lo(full)>>

Byte(b, j) == IF j < 2 THEN (Lo(b) \div (256 ^ j)) % 256
                       ELSE (Hi(b) \div (256 ^ (j - 2))) % 256

\* a << 8j, wrapping
Shl8(a, j) ==
    CASE j = 0 -> a
      [] j = 1 -> wrapping_shl(a, 8)
      [] j = 2 -> <<Lo(a), 0>>
      [] OTHER -> <<(Lo(a) % 256) * 256, 0>>

wrapping_mul(a, b) ==
    LET part(j) == Shl8(Wrapped(FullMulSmall(a, Byte(b, j))), j)
    IN  wrapping_add(wrapping_add(part(0), part(1)),
                     wrapping_add(part(2), part(3)))

XorBit(x, y, k) == (((x \div (2 ^ k)) + (y \div (2 ^ k))) % 2) * (2 ^ k)

\* x ^ y for two bytes
Xor8(x, y) ==
    XorBit(x, y, 0) + XorBit(x, y, 1) + XorBit(x, y, 2) + XorBit(x, y, 3)
        + XorBit(x, y, 4) + XorBit(x, y, 5) + XorBit(x, y, 6) + XorBit(x, y, 7)

\* a ^ c for a byte c
xor_byte(a, c) == <<Hi(a), (Lo(a) \div 256) * 256 + Xor8(Lo(a) % 256, c)>>

\* a % b for 0 < b < 2^23, byte by byte from the top: every intermediate
\* value r * 256 + byte stays below 2^31
RemSmall(a, b) ==
    LET m == Hi(b) * W16 + Lo(b)
        r1 == Hi(a) % m
        r2 == ((r1 * 256) + (Lo(a) \div 256)) % m
        r3 == ((r2 * 256) + (Lo(a) % 256)) % m
    IN  FromNat(r3)

\* a % b for b >= 2^23: the quotient q is below 2^9 and lies within 5 of
\* Hi(a) \div Hi(b), which is never below it
RemLarge(a, b) ==
    LET qhat == Hi(a) \div Hi(b)
        cands == {q \in 0..qhat : q >= qhat - 5 /\ ~U32Lt(a, FullMulSmall(b, q))}
        q == CHOOSE c \in cands : \A d \in cands : d <= c
    IN  wrapping_sub(a, Wrapped(FullMulSmall(b, q)))

\* a % b, b /= 0
U32Rem(a, b) == IF Hi(b) < 128 THEN RemSmall(a, b) ELSE RemLarge(a, b)

\* a / 2
U32Half(a) == <<Hi(a) \div 2, (Hi(a) % 2) * (W16 \div 2) + Lo(a) \div 2>>

(***************************************************************************)
(* filter_input: the optional header and whitespace filters.               *)
(***************************************************************************)
WHITESPACES == {32, 9, 10, 11, 12, 13}

\* input.windows(2).position(|w| w == [0xA, 0xA]): the 0-based index of the
\* first window that matches, -1 for None
windows_position(s) ==
    LET hits == {i \in 0..(Len(s) - 2) : s[i + 1] = 10 /\ s[i + 2] = 10}
    IN  IF hits = {} THEN -1
        ELSE CHOOSE i \in hits : \A j \in hits : i <= j

\* input.drain(0..new_start)
drain_front(s, new_start) == SubSeq(s, new_start + 1, Len(s))

\* input.retain(|&c| !whitespaces.contains(&c))
NotWhitespace(c) == c \notin WHITESPACES
retain_non_whitespace(s) == SelectSeq(s, NotWhitespace)

\* a variant that keeps the second line feed of the separator
filter_headers_keep_lf(s) ==
    LET two_newlines == windows_position(s)
        new_start == IF two_newlines >= 0 THEN two_newlines + 1 ELSE 0
    IN  drain_front(s, new_start)

filter_headers(s) ==
    LET two_newlines == windows_position(s)
        new_start == IF two_newlines >= 0 THEN two_newlines + 2 ELSE 0
    IN  drain_front(s, new_start)

\* a variant that removes whitespace before it looks for the separator
filter_input_whitespace_first(s, opts) ==
    LET s1 == IF opts.ignore_whitespace THEN retain_non_whitespace(s) ELSE s
    IN  IF opts.ignore_headers
        THEN LET two_newlines == windows_position(s1)
             IN  drain_front(s1, IF two_newlines >= 0 THEN two_newlines + 2 ELSE 0)
        ELSE s1

filter_input(s, opts) ==
    LET s1 == IF opts.ignore_headers THEN filter_headers(s) ELSE s
    IN  IF opts.ignore_whitespace THEN retain_non_whitespace(s1) ELSE s1

(***************************************************************************)
(* update_hash_output: one emit.                                           *)
(***************************************************************************)
\* a variant that never pops: a full output string keeps growing
update_hash_output_no_pop(hash_value, hash_output, hash_length) ==
    LET ch == BASE64_CHARSET[(Lo(hash_value) % 64) + 1]
    IN  IF Len(hash_output) < hash_length - 1
        THEN [hash_value |-> HASH_INIT, hash_output |-> Append(hash_output, ch)]
        ELSE [hash_value |-> hash_value, hash_output |-> Append(hash_output, ch)]

\* a variant that still resets the accumulator for the last character
update_hash_output_reset_last(hash_value, hash_output, hash_length) ==
    LET ch == BASE64_CHARSET[(Lo(hash_value) % 64) + 1]
    IN  IF Len(hash_output) = hash_length
        THEN [hash_value |-> hash_value,
              hash_output |-> Append(SubSeq(hash_output, 1, Len(hash_output) - 1), ch)]
        ELSE [hash_value |-> HASH_INIT, hash_output |-> Append(hash_output, ch)]

update_hash_output(hash_value, hash_output, hash_length) ==
    LET output_index == Lo(hash_value) % 64
        ch == BASE64_CHARSET[output_index + 1]
    IN  IF Len(hash_output) = hash_length
        THEN [hash_value |-> hash_value,
              hash_output |-> Append(SubSeq(hash_output, 1, Len(hash_output) - 1), ch)]
        ELSE IF Len(hash_output) < hash_length - 1
        THEN [hash_value |-> HASH_INIT, hash_output |-> Append(hash_output, ch)]
        ELSE [hash_value |-> hash_value, hash_output |-> Append(hash_output, ch)]

(***************************************************************************)
(* Spamsum::right_hash_blocksize: left * 2 as a checked u32 product.       *)
(***************************************************************************)
right_hash_blocksize(left_hash_blocksize, bld) ==
    LET full == FullMulSmall(left_hash_blocksize, 2)
    IN  IF Overflows(full) /\ bld = "debug"
        THEN [panic |-> TRUE, value |-> U32Zero]
        ELSE [panic |-> FALSE, value |-> Wrapped(full)]

\* (rolling_hash + Wrapping(1)).0 % blocksize == 0, for blocksize /= 0
trigger(rolling, bs) ==
    U32Rem(wrapping_add(rolling, U32One), bs) = U32Zero

(***************************************************************************)
(* The state of a fresh pass (lines 112-126).                              *)
(***************************************************************************)
NewResult(bs) ==
    [left_hash_blocksize |-> bs, left_hash |-> <<>>, right_hash |-> <<>>]

NewHashState ==
    [window |-> [i \in 1..ROLLING_WINDOW |-> 0],
     window_sum |-> U32Zero,
     window_sum2 |-> U32Zero,
     shift_hash |-> U32Zero,
     position |-> 0,
     left_hash_value |-> HASH_INIT,
     right_hash_value |-> HASH_INIT]

StartPass(bs) ==
    /\ result' = NewResult(bs)
    /\ rolling_hash' = U32Zero
    /\ hash_state' = NewHashState
    /\ passes' = passes + 1
    /\ pc' = "loop"

\* lines 128-149: the window, the rolling hash and both FNV values for one byte
hash_byte(hs, c) ==
    LET rolling_pos == hs.position % ROLLING_WINDOW
        sum2 == wrapping_add(wrapping_sub(hs.window_sum2, hs.window_sum),
                             FromNat(ROLLING_WINDOW * c))
        sum == wrapping_add(wrapping_sub(hs.window_sum,
                                         FromNat(hs.window[rolling_pos + 1])),
                            FromNat(c))
        shift == xor_byte(wrapping_shl(hs.shift_hash, 5), c)
    IN  [window |-> [hs.window EXCEPT ![rolling_pos + 1] = c],
         window_sum |-> sum,
         window_sum2 |-> sum2,
         shift_hash |-> shift,
         position |-> hs.position + 1,
         left_hash_value |-> xor_byte(wrapping_mul(hs.left_hash_value, HASH_PRIME), c),
         right_hash_value |-> xor_byte(wrapping_mul(hs.right_hash_value, HASH_PRIME), c)]

rolling_of(hs) ==
    wrapping_add(wrapping_add(hs.window_sum, hs.window_sum2), hs.shift_hash)

(***************************************************************************)
(* Inputs.  The byte vectors of the crate's tests, and generated vectors   *)
(* Gen(seed, n); Gen(0, n) is n zero bytes.                                *)
(***************************************************************************)
MaxSeed == 1

\* b"test"
InputTest == <<
      116, 101, 115, 116 >>

\* b"Please buy my stuff\nDear Sir or Madam\n"
InputPlease == <<
      80, 108, 101, 97, 115, 101, 32, 98, 117, 121, 32, 109, 121, 32, 115, 116,
      117, 102, 102, 10, 68, 101, 97, 114, 32, 83, 105, 114, 32, 111, 114, 32,
      77, 97, 100, 97, 109, 10 >>

\* b"X-Spam: YES\nX-Score: 1337\n\nDear Sir\n\nPlease buy\n"
InputMail == <<
      88, 45, 83, 112, 97, 109, 58, 32, 89, 69, 83, 10, 88, 45, 83, 99,
      111, 114, 101, 58, 32, 49, 51, 51, 55, 10, 10, 68, 101, 97, 114, 32,
      83, 105, 114, 10, 10, 80, 108, 101, 97, 115, 101, 32, 98, 117, 121, 10 >>

Gen(seed, n) == [i \in 1..n |-> (seed * (i * i + i + 1)) % 251]

GenLengths == {0, 70, 193, 220, 222}

Inputs ==
    {InputTest, InputPlease, InputMail}
        \cup {Gen(seed, n) : seed \in 0..MaxSeed, n \in GenLengths}

\* options.blocksize: 0 selects the blocksize automatically
Blocksizes == {U32Zero, U32One, FromNat(11), U32(32768, 0), U32(32768, 1)}

Builds == {"debug", "release"}

OptionSet ==
    [blocksize : Blocksizes, ignore_whitespace : BOOLEAN, ignore_headers : BOOLEAN]

Panicked == pc \in {"panic_mul_overflow", "panic_sub_overflow", "panic_div_zero"}

(***************************************************************************)
(* get_configured_spamsum, as a state machine.                             *)
(***************************************************************************)
Init ==
    /\ build \in Builds
    /\ input \in Inputs
    /\ options \in OptionSet
    /\ pc = "start"
    /\ valid_input = input                  \* line 65: input.clone()
    /\ result = NewResult(U32Zero)
    /\ rolling_hash = U32Zero
    /\ hash_state = NewHashState
    /\ passes = 0
    /\ filter_calls = 0
    /\ input_length = U32Zero
    /\ blocksize = U32Zero

\* line 66
FilterInput ==
    /\ pc = "start"
    /\ valid_input' = filter_input(valid_input, options)
    /\ filter_calls' = filter_calls + 1
    /\ pc' = "select"
    /\ UNCHANGED <<build, input, options, result, rolling_hash, hash_state,
                   passes, input_length, blocksize>>

\* lines 67-71, 196: the pinned blocksize and the first pass, or the call of
\* guess_initial_blocksize(valid_input.len() as u32)
SelectBlocksize ==
    /\ pc = "select"
    /\ IF options.blocksize # U32Zero
       THEN /\ StartPass(options.blocksize)
            /\ UNCHANGED <<input_length, blocksize>>
       ELSE /\ input_length' = FromNat(Len(valid_input))
            /\ blocksize' = FromNat(MIN_BLOCKSIZE)
            /\ pc' = "guess_loop"
            /\ UNCHANGED <<result, rolling_hash, hash_state, passes>>
    /\ UNCHANGED <<build, input, options, valid_input, filter_calls>>

\* line 197: blocksize * LEFT_HASH_LENGTH < input_length, a checked u32
\* product: it panics in a debug build and wraps in a release build
guess_test(bs, n, bld) ==
    LET prod == FullMulSmall(bs, LEFT_HASH_LENGTH)
    IN  IF Overflows(prod) /\ bld = "debug" THEN "panic"
        ELSE IF U32Lt(Wrapped(prod), n) THEN "loop"
        ELSE "exit"

\* lines 197-198: one turn of the loop, blocksize *= 2 checked as above
GuessDouble ==
    /\ pc = "guess_loop"
    /\ guess_test(blocksize, input_length, build) # "exit"
    /\ LET dbl == FullMulSmall(blocksize, 2)
       IN  IF guess_test(blocksize, input_length, build) = "panic"
              \/ (Overflows(dbl) /\ build = "debug")
           THEN /\ pc' = "panic_mul_overflow"
                /\ UNCHANGED blocksize
           ELSE /\ blocksize' = Wrapped(dbl)
                /\ UNCHANGED pc
    /\ UNCHANGED <<build, input, options, valid_input, result, rolling_hash,
                   hash_state, passes, filter_calls, input_length>>

\* lines 200, 72: the guess is returned and the first pass begins
GuessReturn ==
    /\ pc = "guess_loop"
    /\ guess_test(blocksize, input_length, build) = "exit"
    /\ StartPass(blocksize)
    /\ UNCHANGED <<build, input, options, valid_input, filter_calls,
                   input_length, blocksize>>

\* lines 127-149: the next byte of the pass
HashByte ==
    /\ pc = "loop"
    /\ hash_state.position < Len(valid_input)
    /\ LET hs == hash_byte(hash_state, valid_input[hash_state.position + 1])
       IN  /\ hash_state' = hs
           /\ rolling_hash' = rolling_of(hs)
    /\ pc' = "left"
    /\ UNCHANGED <<build, input, options, valid_input, result, passes,
                   filter_calls, input_length, blocksize>>

\* lines 151-158: the reset point of the left hash
LeftTrigger ==
    /\ pc = "left"
    /\ IF result.left_hash_blocksize = U32Zero
       THEN /\ pc' = "panic_div_zero"
            /\ UNCHANGED <<result, hash_state>>
       ELSE /\ pc' = "right"
            /\ IF trigger(rolling_hash, result.left_hash_blocksize)
               THEN LET e == update_hash_output(hash_state.left_hash_value,
                                                result.left_hash, LEFT_HASH_LENGTH)
                    IN  /\ hash_state' = [hash_state EXCEPT !.left_hash_value = e.hash_value]
                        /\ result' = [result EXCEPT !.left_hash = e.hash_output]
               ELSE UNCHANGED <<result, hash_state>>
    /\ UNCHANGED <<build, input, options, valid_input, rolling_hash, passes,
                   filter_calls, input_length, blocksize>>

\* lines 159-166: the reset point of the right hash
RightTrigger ==
    /\ pc = "right"
    /\ LET rbs == right_hash_blocksize(result.left_hash_blocksize, build)
       IN  IF rbs.panic
           THEN /\ pc' = "panic_mul_overflow"
                /\ UNCHANGED <<result, hash_state>>
           ELSE IF rbs.value = U32Zero
           THEN /\ pc' = "panic_div_zero"
                /\ UNCHANGED <<result, hash_state>>
           ELSE /\ pc' = "loop"
                /\ IF trigger(rolling_hash, rbs.value)
                   THEN LET e == update_hash_output(hash_state.right_hash_value,
                                                    result.right_hash, RIGHT_HASH_LENGTH)
                        IN  /\ hash_state' = [hash_state EXCEPT !.right_hash_value = e.hash_value]
                            /\ result' = [result EXCEPT !.right_hash = e.hash_output]
                   ELSE UNCHANGED <<result, hash_state>>
    /\ UNCHANGED <<build, input, options, valid_input, rolling_hash, passes,
                   filter_calls, input_length, blocksize>>

\* a variant that collects the leftover whatever the rolling hash is
FlushLeftAlways ==
    /\ pc = "loop"
    /\ hash_state.position = Len(valid_input)
    /\ LET e == update_hash_output(hash_state.left_hash_value,
                                   result.left_hash, LEFT_HASH_LENGTH)
       IN  /\ hash_state' = [hash_state EXCEPT !.left_hash_value = e.hash_value]
           /\ result' = [result EXCEPT !.left_hash = e.hash_output]
    /\ pc' = "flush_right"
    /\ UNCHANGED <<build, input, options, valid_input, rolling_hash, passes,
                   filter_calls, input_length, blocksize>>

\* lines 169-175: the leftover of the left hash
FlushLeft ==
    /\ pc = "loop"
    /\ hash_state.position = Len(valid_input)
    /\ rolling_hash # U32Zero
    /\ LET e == update_hash_output(hash_state.left_hash_value,
                                   result.left_hash, LEFT_HASH_LENGTH)
       IN  /\ hash_state' = [hash_state EXCEPT !.left_hash_value = e.hash_value]
           /\ result' = [result EXCEPT !.left_hash = e.hash_output]
    /\ pc' = "flush_right"
    /\ UNCHANGED <<build, input, options, valid_input, rolling_hash, passes,
                   filter_calls, input_length, blocksize>>

\* lines 176-182: the leftover of the right hash, and the pass returns
FlushRight ==
    /\ pc = "flush_right"
    /\ LET e == update_hash_output(hash_state.right_hash_value,
                                   result.right_hash, RIGHT_HASH_LENGTH)
       IN  /\ hash_state' = [hash_state EXCEPT !.right_hash_value = e.hash_value]
           /\ result' = [result EXCEPT !.right_hash = e.hash_output]
    /\ pc' = "computed"
    /\ UNCHANGED <<build, input, options, valid_input, rolling_hash, passes,
                   filter_calls, input_length, blocksize>>

\* lines 170, 182: nothing is left over, and the pass returns
NoFlush ==
    /\ pc = "loop"
    /\ hash_state.position = Len(valid_input)
    /\ rolling_hash = U32Zero
    /\ pc' = "computed"
    /\ UNCHANGED <<build, input, options, valid_input, result, rolling_hash,
                   hash_state, passes, filter_calls, input_length, blocksize>>

\* lines 73-75: the loop test of the adaptive retry.  left_hash.len() - 1 is
\* a usize subtraction: on an empty left hash it panics in a debug build and
\* wraps to usize::MAX in a release build
retry_test(res, opts, bld) ==
    IF opts.blocksize # U32Zero THEN "return"
    ELSE IF ~U32Lt(FromNat(MIN_BLOCKSIZE), res.left_hash_blocksize) THEN "return"
    ELSE IF Len(res.left_hash) = 0
    THEN (IF bld = "debug" THEN "panic" ELSE "return")
    ELSE IF Len(res.left_hash) - 1 < RIGHT_HASH_LENGTH THEN "retry"
    ELSE "return"

\* lines 77-82: another pass at half the blocksize
Retry ==
    /\ pc = "computed"
    /\ retry_test(result, options, build) = "retry"
    /\ StartPass(U32Half(result.left_hash_blocksize))
    /\ UNCHANGED <<build, input, options, valid_input, filter_calls,
                   input_length, blocksize>>

\* line 85
Return ==
    /\ pc = "computed"
    /\ retry_test(result, options, build) = "return"
    /\ pc' = "done"
    /\ UNCHANGED <<build, input, options, valid_input, result, rolling_hash,
                   hash_state, passes, filter_calls, input_length, blocksize>>

\* line 75: the subtraction overflows
RetryPanic ==
    /\ pc = "computed"
    /\ retry_test(result, options, build) = "panic"
    /\ pc' = "panic_sub_overflow"
    /\ UNCHANGED <<build, input, options, valid_input, result, rolling_hash,
                   hash_state, passes, filter_calls, input_length, blocksize>>

Next ==
    \/ FilterInput
    \/ SelectBlocksize
    \/ GuessDouble
    \/ GuessReturn
    \/ HashByte
    \/ LeftTrigger
    \/ RightTrigger
    \/ FlushLeft
    \/ FlushRight
    \/ NoFlush
    \/ Retry
    \/ Return
    \/ RetryPanic

Spec == Init /\ [][Next]_vars

(***************************************************************************)
(* filter_input on its own, as the crate's tests call it: a buffer over a  *)
(* small alphabet (the six whitespace bytes and 'A') is filtered in place,  *)
(* repeatedly.                                                             *)
(***************************************************************************)
MaxFilterLen == 4
MaxFilterCalls == 2

FilterAlphabet == {9, 10, 11, 12, 13, 32, 65}

FilterInputs ==
    UNION {[1..n -> FilterAlphabet] : n \in 0..MaxFilterLen}

InitFilter ==
    /\ build \in Builds
    /\ input \in FilterInputs
    /\ options \in [blocksize : {U32Zero}, ignore_whitespace : BOOLEAN,
                    ignore_headers : BOOLEAN]
    /\ pc = "filter"
    /\ valid_input = input
    /\ result = NewResult(U32Zero)
    /\ rolling_hash = U32Zero
    /\ hash_state = NewHashState
    /\ passes = 0
    /\ filter_calls = 0
    /\ input_length = U32Zero
    /\ blocksize = U32Zero

\* lines 88-105, called on the buffer once more
FilterCall ==
    /\ pc = "filter"
    /\ filter_calls < MaxFilterCalls
    /\ valid_input' = filter_input(valid_input, options)
    /\ filter_calls' = filter_calls + 1
    /\ UNCHANGED <<build, input, options, pc, result, rolling_hash, hash_state,
                   passes, input_length, blocksize>>

NextFilter == FilterCall

SpecFilter == InitFilter /\ [][NextFilter]_vars

(***************************************************************************)
(* guess_initial_blocksize on its own, for input lengths over the whole    *)
(* u32 range: the values around every threshold 3 * 64 * 2^k.             *)
(***************************************************************************)
MaxGuessShift == 24

\* 3 * 64 * 2^k as a u32 (k <= 24)
Threshold(k) == IF k < 10 THEN FromNat(192 * (2 ^ k)) ELSE <<3 * (2 ^ (k - 10)), 0>>

GuessLengths ==
    {U32Zero, U32One, U32Max}
        \cup {n \in UNION {{wrapping_sub(Threshold(k), U32One), Threshold(k),
                            wrapping_add(Threshold(k), U32One)} :
                           k \in 0..MaxGuessShift} : Hi(n) < W16}

InitGuess ==
    /\ build \in Builds
    /\ input = <<>>
    /\ options = [blocksize |-> U32Zero, ignore_whitespace |-> FALSE,
                  ignore_headers |-> FALSE]
    /\ pc = "guess_loop"
    /\ valid_input = <<>>
    /\ result = NewResult(U32Zero)
    /\ rolling_hash = U32Zero
    /\ hash_state = NewHashState
    /\ passes = 0
    /\ filter_calls = 0
    /\ input_length \in GuessLengths
    /\ blocksize = FromNat(MIN_BLOCKSIZE)       \* line 196

NextGuess ==
    \/ GuessDouble
    \/ GuessReturn

SpecGuess == InitGuess /\ [][NextGuess]_vars

(***************************************************************************)
(* Properties.                                                             *)
(***************************************************************************)
Auto == options.blocksize = U32Zero

\* 3 * 2^k as a u32, k <= 30
ThreePow2(k) == IF k < 16 THEN FromNat(3 * (2 ^ k)) ELSE <<3 * (2 ^ (k - 16)), 0>>

\* the character update_hash_output derives from an accumulator
CharOf(v) == BASE64_CHARSET[(Lo(v) % 64) + 1]

HasPair(s) == \E i \in 1..(Len(s) - 1) : s[i] = 10 /\ s[i + 1] = 10

\* the bytes after the first LF LF of s, for a s that has one
RECURSIVE SuffixAfterPair(_)
SuffixAfterPair(s) ==
    IF s[1] = 10 /\ s[2] = 10 THEN Tail(Tail(s)) ELSE SuffixAfterPair(Tail(s))

strip_headers(s) == IF HasPair(s) THEN SuffixAfterPair(s) ELSE s

RECURSIVE strip_whitespace(_)
strip_whitespace(s) ==
    IF s = <<>> THEN <<>>
    ELSE IF Head(s) \in {32, 9, 10, 11, 12, 13} THEN strip_whitespace(Tail(s))
    ELSE <<Head(s)>> \o strip_whitespace(Tail(s))

\* C1: with blocksize = 0 get_configured_spamsum never panics, whatever the
\* input and the ignore flags, and a result whose pass emitted nothing has
\* empty left and right hashes at the guessed blocksize.
C1_TotalInAutoMode ==
    Auto =>
        /\ ~Panicked
        /\ (pc = "done" /\ result.left_hash = <<>> /\ passes = 1)
             => (result.right_hash = <<>> /\ result.left_hash_blocksize = blocksize)

\* C2: at every point of a pass left_hash has at most 64 characters,
\* right_hash at most 32, and every character of both is one of the 64
\* symbols A-Z a-z 0-9 + / (so none is ':').
Alphabet64 ==
    {"A","B","C","D","E","F","G","H","I","J","K","L","M","N","O","P","Q","R",
     "S","T","U","V","W","X","Y","Z","a","b","c","d","e","f","g","h","i","j",
     "k","l","m","n","o","p","q","r","s","t","u","v","w","x","y","z",
     "0","1","2","3","4","5","6","7","8","9","+","/"}

C2_HashLengthsAndAlphabet ==
    /\ Len(result.left_hash) <= 64
    /\ Len(result.right_hash) <= 32
    /\ \A i \in 1..Len(result.left_hash) :
          result.left_hash[i] \in Alphabet64 /\ result.left_hash[i] # ":"
    /\ \A i \in 1..Len(result.right_hash) :
          result.right_hash[i] \in Alphabet64 /\ result.right_hash[i] # ":"

\* C2 witness: both output strings are full when the pass returns, after
\* emits at the cap
C2_Witness ==
    /\ pc = "computed"
    /\ Len(result.left_hash) = 64
    /\ Len(result.right_hash) = 32
    /\ hash_state.position > 64

\* C3: whenever the right trigger is tested, the right blocksize is exactly
\* twice the left blocksize (no overflow, no panic) and is not 0.
C3_RightIsTwiceLeft ==
    pc = "right" =>
        LET rbs == right_hash_blocksize(result.left_hash_blocksize, build)
        IN  /\ ~rbs.panic
            /\ rbs.value # U32Zero
            /\ ~Overflows(FullMulSmall(result.left_hash_blocksize, 2))
            /\ U32Half(rbs.value) = result.left_hash_blocksize
            /\ Lo(rbs.value) % 2 = 0

\* C4: for every u32 length n guess_initial_blocksize(n) terminates (it never
\* panics, and its blocksize stays of the form 3 * 2^k, so the loop cannot
\* stall on 0) and returns the smallest 3 * 2^k with 3 * 2^k * 64 >= n.
C4_GuessIsSmallestThreePow2 ==
    /\ ~Panicked
    /\ \E k \in 0..30 : blocksize = ThreePow2(k)
    /\ pc = "loop" =>
          /\ ~U32Lt(FullMulSmall(blocksize, 64), input_length)
          /\ \/ blocksize = FromNat(3)
             \/ U32Lt(FullMulSmall(U32Half(blocksize), 64), input_length)

\* a step that applies filter_input with ignore_headers alone to a buffer
\* that was filtered before
SecondHeaderStrip ==
    /\ pc = "filter"
    /\ filter_calls >= 1
    /\ filter_calls' = filter_calls + 1
    /\ options.ignore_headers
    /\ ~options.ignore_whitespace

\* C5 as stated: header stripping is idempotent, a second application
\* changes nothing.
C5_HeaderStripIdempotent ==
    [][SecondHeaderStrip => valid_input' = valid_input]_vars

\* C5 amended: a second application changes nothing exactly when the bytes
\* stripped once hold no two consecutive line feeds; when they do, it drops
\* everything up to and including the first such pair again.
C5_HeaderStripIdempotentIffNoPair ==
    [][SecondHeaderStrip =>
          /\ (valid_input' = valid_input) <=> ~HasPair(valid_input)
          /\ HasPair(valid_input) => valid_input' = SuffixAfterPair(valid_input)
          /\ filter_calls = 1 => valid_input = strip_headers(input)]_vars

\* C5 witness: headers were stripped, and stripping again changed nothing
C5_Witness ==
    /\ pc = "filter"
    /\ filter_calls = 2
    /\ options.ignore_headers /\ ~options.ignore_whitespace
    /\ HasPair(input)
    /\ valid_input = strip_headers(input)
    /\ valid_input # <<>>

\* C6: filter_input yields strip_whitespace(strip_headers(input)) with both
\* flags, the one filter with one flag, and the input with none.
C6_FilterOrder ==
    (pc = "filter" /\ filter_calls = 1) =>
        valid_input =
            (CASE options.ignore_headers /\ options.ignore_whitespace ->
                      strip_whitespace(strip_headers(input))
               [] options.ignore_headers /\ ~options.ignore_whitespace ->
                      strip_headers(input)
               [] ~options.ignore_headers /\ options.ignore_whitespace ->
                      strip_whitespace(input)
               [] OTHER -> input)

\* C6 witness: both filters acted, and the separator was found before the
\* whitespace filter removed it: filtering whitespace alone gives other bytes
C6_Witness ==
    /\ pc = "filter"
    /\ filter_calls = 1
    /\ options.ignore_headers /\ options.ignore_whitespace
    /\ HasPair(input)
    /\ valid_input # <<>>
    /\ strip_whitespace(input) # valid_input

\* one step of the retry decision as C7 states it
C7_Step ==
    /\ (pc = "computed" /\ Auto) =>
          ((pc' = "loop" /\ passes' = passes + 1
               /\ result'.left_hash_blocksize = U32Half(result.left_hash_blocksize))
             <=> (U32Lt(FromNat(3), result.left_hash_blocksize)
                     /\ Len(result.left_hash) < 32))
    /\ (pc' = "done" /\ Auto) =>
          (result'.left_hash_blocksize = FromNat(3) \/ Len(result'.left_hash) >= 32)

\* C7: in auto mode a completed pass at blocksize B is retried at B / 2
\* exactly when B > 3 and its left hash has fewer than 32 characters, so the
\* returned result has blocksize 3 or a left hash of at least 32 characters
\* (and a left hash of exactly 32 characters at B > 3 is accepted).
C7_RetryIffShortLeftHash == [][C7_Step]_vars

\* C8: the selector terminates in DONE (it never aborts); in auto mode the
\* pass is re-run at most k times from the guess 3 * 2^k, each time at half
\* the blocksize; in pinned mode the pass runs once, at the pinned blocksize.
C8_SelectorTerminates ==
    /\ ~Panicked
    /\ (Auto /\ passes >= 1) =>
          \E k \in 0..30 :
             /\ blocksize = ThreePow2(k)
             /\ passes - 1 <= k
             /\ result.left_hash_blocksize = ThreePow2(k - (passes - 1))
    /\ (~Auto /\ pc \notin {"start", "select"}) =>
          (passes = 1 /\ result.left_hash_blocksize = options.blocksize)

\* the left trigger fired on the byte hashed last
LeftFired ==
    /\ hash_state.position > 0
    /\ trigger(rolling_hash, result.left_hash_blocksize)

\* the right trigger fired on the byte hashed last
RightFired ==
    /\ hash_state.position > 0
    /\ trigger(rolling_hash, right_hash_blocksize(result.left_hash_blocksize, build).value)

\* new is old after one emit from accumulator v into a string capped at cap
OneEmit(old, new, v, cap) ==
    new = Append(IF Len(old) = cap THEN SubSeq(old, 1, cap - 1) ELSE old, CharOf(v))

\* the flush as C9 states it, apart from the accumulator a flush after a
\* trigger on the final byte starts from
C9_Flush ==
    /\ (pc = "loop" /\ hash_state.position = Len(valid_input)) =>
          IF rolling_hash # U32Zero
          THEN /\ pc' = "flush_right"
               /\ OneEmit(result.left_hash, result'.left_hash,
                          hash_state.left_hash_value, 64)
               /\ result'.right_hash = result.right_hash
          ELSE /\ pc' = "computed"
               /\ result' = result
    /\ pc = "flush_right" =>
          /\ pc' = "computed"
          /\ OneEmit(result.right_hash, result'.right_hash,
                     hash_state.right_hash_value, 32)
          /\ result'.left_hash = result.left_hash
    /\ (pc = "loop" /\ Len(valid_input) = 0) => result' = result

FlushStarts ==
    pc = "loop" /\ hash_state.position = Len(valid_input) /\ rolling_hash # U32Zero

\* C9 as stated: the flush happens iff the final rolling value is nonzero,
\* once for each hash, and after a trigger on the final byte the flushed
\* character comes from the freshly re-seeded accumulator.
C9_FlushFromReseededAccumulator ==
    [][/\ C9_Flush
       /\ (FlushStarts /\ LeftFired) => hash_state.left_hash_value = HASH_INIT
       /\ (FlushStarts /\ RightFired) => hash_state.right_hash_value = HASH_INIT]_vars

\* C9 amended: after a trigger on the final byte the flushed character comes
\* from the re-seeded accumulator when that trigger left the output string
\* below its cap, and from the accumulator as the trigger left it (not
\* re-seeded) when the string is at its cap.
C9_FlushIffRollingNonzero ==
    [][/\ C9_Flush
       /\ (FlushStarts /\ LeftFired /\ Len(result.left_hash) < 64) =>
             (hash_state.left_hash_value = HASH_INIT
                /\ result'.left_hash = Append(result.left_hash, "n"))
       /\ (FlushStarts /\ RightFired /\ Len(result.right_hash) < 32) =>
             hash_state.right_hash_value = HASH_INIT
       /\ (pc = "flush_right" /\ RightFired /\ Len(result.right_hash) < 32) =>
             result'.right_hash = Append(result.right_hash, "n")]_vars

\* C9 witness: a trigger fired on the final byte and both hashes were
\* flushed after it
C9_Witness ==
    /\ pc = "computed"
    /\ rolling_hash # U32Zero
    /\ LeftFired
    /\ RightFired
    /\ Len(result.left_hash) >= 2
    /\ Len(result.left_hash) < 64
    /\ result.left_hash[Len(result.left_hash)] = "n"
    /\ result.right_hash[Len(result.right_hash)] = "n"

\* the steps that call update_hash_output for the left and the right hash
LeftEmits ==
    \/ pc = "left" /\ result.left_hash_blocksize # U32Zero
         /\ trigger(rolling_hash, result.left_hash_blocksize)
    \/ FlushStarts

RightEmits ==
    \/ pc = "right"
         /\ ~right_hash_blocksize(result.left_hash_blocksize, build).panic
         /\ right_hash_blocksize(result.left_hash_blocksize, build).value # U32Zero
         /\ trigger(rolling_hash, right_hash_blocksize(result.left_hash_blocksize, build).value)
    \/ pc = "flush_right"

\* one emit from accumulator v on the string old with cap cap gave new and v2
EmitCases(old, new, v, v2, cap) ==
    CASE Len(old) < cap - 1 ->
             new = Append(old, CharOf(v)) /\ v2 = HASH_INIT
      [] Len(old) = cap - 1 ->
             new = Append(old, CharOf(v)) /\ Len(new) = cap /\ v2 = v
      [] OTHER ->
             /\ new = Append(SubSeq(old, 1, cap - 1), CharOf(v))
             /\ Len(new) = cap
             /\ v2 = v

\* one step as C10 states it
C10_Step ==
    /\ LeftEmits =>
          EmitCases(result.left_hash, result'.left_hash,
                    hash_state.left_hash_value, hash_state'.left_hash_value, 64)
    /\ RightEmits =>
          EmitCases(result.right_hash, result'.right_hash,
                    hash_state.right_hash_value, hash_state'.right_hash_value, 32)
    /\ (passes' = passes /\ Len(result.left_hash) = 64) =>
          SubSeq(result'.left_hash, 1, 63) = SubSeq(result.left_hash, 1, 63)
    /\ (passes' = passes /\ Len(result.right_hash) = 32) =>
          SubSeq(result'.right_hash, 1, 31) = SubSeq(result.right_hash, 1, 31)

\* C10: an emit appends the symbol of (accumulator mod 64); below cap - 1
\* characters it resets the accumulator to the seed, at cap - 1 it does not,
\* and at the cap it replaces the last character and does not reset; so the
\* first cap - 1 characters of a full string never change within a pass.
C10_EmitCases == [][C10_Step]_vars

\* C10 witness: the left trigger has just replaced the last character of a
\* full left hash
C10_Witness ==
    /\ pc = "right"
    /\ Len(result.left_hash) = 64
    /\ hash_state.position > 65
    /\ options.blocksize = U32One
    /\ hash_state.left_hash_value # HASH_INIT

\* The results the crate's tests expect (lines 273-312)
TestVectors ==
    /\ (pc = "done" /\ input = InputTest /\ options.blocksize = U32Zero
          /\ ~options.ignore_whitespace /\ ~options.ignore_headers)
         => result = [left_hash_blocksize |-> FromNat(3),
                      left_hash |-> <<"H", "n">>, right_hash |-> <<"H", "n">>]
    /\ (pc = "done" /\ input = InputPlease /\ options.blocksize = FromNat(11)
          /\ ~options.ignore_whitespace /\ ~options.ignore_headers)
         => result = [left_hash_blocksize |-> FromNat(11),
                      left_hash |-> <<"c", "c", "s", "v">>, right_hash |-> <<"I", "v">>]
    /\ (pc = "done" /\ input = InputPlease /\ options.blocksize = U32Zero
          /\ ~options.ignore_whitespace /\ ~options.ignore_headers)
         => result = [left_hash_blocksize |-> FromNat(3),
                      left_hash |-> <<"c","l","c","l","D","D","v","W","I","M","F","/","h","v">>,
                      right_hash |-> <<"c","G","Z","/","E","J","v">>]

====
